---- MODULE Spec2Model ----
(***************************************************************************)
(* Polynomial interpolation notebook                                       *)
(* (_posts/scikit/Polynomial-interpolation/Polynomial Interpolation.ipynb) *)
(*                                                                         *)
(* The notebook samples f(x) = x*sin(x), fits                              *)
(* make_pipeline(PolynomialFeatures(degree), Ridge()) for degree 3, 4, 5   *)
(* and hands five series to the chart renderer.                            *)
(*                                                                         *)
(* Numbers.  Exact numbers are rationals <<n, d>> in lowest terms, d > 0.  *)
(* The values of f are irrational; f(n/d) is kept as the term              *)
(* <<n, d, "f">>.  Coefficients fitted to term-valued targets are kept as  *)
(* the one-element sequence holding the ridge problem they solve, and a    *)
(* prediction from such coefficients as the term of its evaluation.        *)
(* On exact targets the ridge problem is solved exactly.                   *)
(***************************************************************************)
EXTENDS Integers, Sequences, FiniteSets, TLC

\* ------------------------------------------------------------------ bounds
\* np.linspace(0, 10, 100): number of grid points (100 in the notebook)
NGrid == 4
\* x[:20]: number of training points kept (20 in the notebook)
NTrain == 2
\* the caller's configurations: degree in -1..MaxDegree, alpha in 0..MaxAlpha
MaxDegree == 2
MaxAlpha == 1

\* ------------------------------------------------------- exact arithmetic
Abs(a) == IF a < 0 THEN -a ELSE a

RECURSIVE GCD(_, _)
GCD(a, b) == IF b = 0 THEN a ELSE GCD(b, a % b)

\* the rational n/d in lowest terms with a positive denominator
Rat(n, d) ==
  LET s == IF d < 0 THEN -1 ELSE 1
      g == GCD(Abs(n), Abs(d))
  IN  <<(s * n) \div g, (s * d) \div g>>

RInt(k) == <<k, 1>>
RAdd(p, q) == Rat(p[1] * q[2] + q[1] * p[2], p[2] * q[2])
RMul(p, q) == Rat(p[1] * q[1], p[2] * q[2])
RLess(p, q) == p[1] * q[2] < q[1] * p[2]

RECURSIVE RSum(_)
RSum(s) == IF s = <<>> THEN RInt(0) ELSE RAdd(Head(s), RSum(Tail(s)))

\* x ** k as numpy computes it: the empty product is 1, also for x = 0
RECURSIVE RPow(_, _)
RPow(p, k) == IF k = 0 THEN RInt(1) ELSE RMul(p, RPow(p, k - 1))

RSub(p, q) == RAdd(p, <<-q[1], q[2]>>)
RDiv(p, q) == Rat(p[1] * q[2], p[2] * q[1])

\* ---------------------------------------------------------- linear algebra
\* a sequence given by a function on 1..n, evaluated once into a tuple
Tup(f) == f \o <<>>

\* the elements of a finite set of integers in ascending order
RECURSIVE SetToSeq(_)
SetToSeq(S) ==
  IF S = {} THEN <<>>
  ELSE LET m == CHOOSE a \in S : \A b \in S : a <= b
       IN  <<m>> \o SetToSeq(S \ {m})

\* the square matrix M restricted to the rows and columns listed in K
SubM(M, K) ==
  Tup([r \in 1..Len(K) |-> Tup([c \in 1..Len(K) |-> M[K[r]][K[c]]])])

\* M without row 1 and column j
Minor1(M, j) ==
  Tup([r \in 1..(Len(M) - 1) |->
        Tup([c \in 1..(Len(M) - 1) |->
               M[r + 1][IF c < j THEN c ELSE c + 1]])])

\* determinant by expansion along the first row; the empty matrix has 1
RECURSIVE RDet(_)
RDet(M) ==
  IF Len(M) = 0 THEN RInt(1)
  ELSE RSum(Tup([j \in 1..Len(M) |->
                   RMul(RMul(RInt(IF j % 2 = 1 THEN 1 ELSE -1), M[1][j]),
                        RDet(Minor1(M, j)))]))

\* M with column i replaced by the vector b
ReplaceCol(M, i, b) ==
  Tup([r \in 1..Len(M) |->
        Tup([c \in 1..Len(M) |-> IF c = i THEN b[r] ELSE M[r][c]])])

\* sum of the determinants of M with the rows and columns T removed,
\* over the k-element sets T drawn from Cols
MinorSum(M, Cols, k) ==
  LET TT == {T \in SUBSET Cols : Cardinality(T) = k}
      RECURSIVE Acc(_)
      Acc(S) == IF S = {} THEN RInt(0)
                ELSE LET T == CHOOSE T \in S : TRUE
                     IN  RAdd(RDet(SubM(M, SetToSeq((1..Len(M)) \ T))),
                              Acc(S \ {T}))
  IN  Acc(TT)

\* ------------------------------------------------ the pipeline's two steps
\* PolynomialFeatures and Ridge are the library's (scikit-learn 0.18.1, the
\* version the notebook prints).  They are modelled as that version behaves
\* with the arguments the notebook passes and the defaults it leaves:
\* PolynomialFeatures(degree) with include_bias=True, and Ridge() with
\* alpha=1.0, fit_intercept=True, copy_X=True, solver='auto'.
\* Ridge(): the library's default regularisation strength alpha = 1.0
RidgeAlpha == 1

\* Expand without the bias column: powers 1..degree+1 (mutation for C4)
ExpandNoBias(xs, degree) ==
  Tup([i \in 1..Len(xs) |->
        Tup([k \in 1..(degree + 1) |-> RPow(xs[i], k)])])

\* PolynomialFeatures(degree).fit_transform on one input column: the
\* Vandermonde matrix, row i = [1, x_i, x_i ** 2, ..., x_i ** degree].
\* A negative degree is not rejected here: it yields rows without columns.
Expand(xs, degree) ==
  Tup([i \in 1..Len(xs) |->
        Tup([k \in 1..(degree + 1) |-> RPow(xs[i], k - 1)])])

\* a target sequence of exact numbers (not of terms f(x))
IsExact(ys) == \A i \in 1..Len(ys) : Len(ys[i]) = 2

Column(M, j) == Tup([i \in 1..Len(M) |-> M[i][j]])
Mean(v) == RDiv(RSum(v), RInt(Len(v)))
Dot(u, v) == RSum(Tup([i \in 1..Len(u) |-> RMul(u[i], v[i])]))

\* Ridge.fit centres the data because fit_intercept defaults to True
Centre(v) == LET mu == Mean(v) IN Tup([i \in 1..Len(v) |-> RSub(v[i], mu)])

\* every column of the design matrix X minus its mean (X_offset)
CentreColumns(X) ==
  LET mu == Tup([j \in 1..Len(X[1]) |-> Mean(Column(X, j))])
  IN  Tup([i \in 1..Len(X) |->
             Tup([j \in 1..Len(X[1]) |-> RSub(X[i][j], mu[j])])])

\* X^T X + alpha * I over the centred design matrix, m columns
NormalMatrix(Xc, m, alpha) ==
  Tup([r \in 1..m |-> Tup([c \in 1..m |->
     RAdd(Dot(Column(Xc, r), Column(Xc, c)),
          IF r = c THEN RInt(alpha) ELSE RInt(0))])])

\* the 'cholesky' solver: the unique solution of A w = b, A non-singular
SolveCholesky(A, b) ==
  LET D == RDet(A)
  IN  Tup([i \in 1..Len(A) |-> RDiv(RDet(ReplaceCol(A, i, b)), D)])

\* the 'svd' solver the library falls back to when A is singular: the
\* least-squares solution of minimum norm, i.e. the limit for t -> 0+ of
\* the solution of (A + t*I) w = b.  By Cramer's rule w_i is a quotient of
\* polynomials in t; the limit is the quotient of their coefficients at the
\* lowest power k of t whose coefficient in det(A + t*I) is not 0.
SolveSvd(A, b) ==
  LET m  == Len(A)
      Es == Tup([j \in 1..(m + 1) |-> MinorSum(A, 1..m, j - 1)])
      k  == CHOOSE j \in 0..m :
              /\ Es[j + 1] # RInt(0)
              /\ \A l \in 0..(j - 1) : Es[l + 1] = RInt(0)
  IN  Tup([i \in 1..m |->
             RDiv(MinorSum(ReplaceCol(A, i, b), (1..m) \ {i}, k),
                  Es[k + 1])])

\* which solver produces the coefficients (solver='auto' on dense input)
SolverUsed(A) == IF RDet(A) = RInt(0) THEN "svd" ELSE "cholesky"

\* RidgeExact with intercept_ = mean(y), the offset of X forgotten
\* (mutation for C6)
RidgeMeanIntercept(X, ys, alpha) ==
  LET m  == Len(X[1])
      Xc == CentreColumns(X)
      yc == Centre(ys)
      A  == NormalMatrix(Xc, m, alpha)
      b  == Tup([j \in 1..m |-> Dot(Column(Xc, j), yc)])
      sv == SolverUsed(A)
      w  == IF sv = "cholesky" THEN SolveCholesky(A, b) ELSE SolveSvd(A, b)
  IN  [coef |-> <<Mean(ys)>> \o w, solver |-> sv]

\* RidgeExact with fit_intercept=False: no centring, the bias column is
\* penalised like every other column (mutation for C7)
RidgePenalisedBias(X, ys, alpha) ==
  LET m  == Len(X[1])
      A  == NormalMatrix(X, m, alpha)
      b  == Tup([j \in 1..m |-> Dot(Column(X, j), ys)])
      sv == SolverUsed(A)
      w  == IF sv = "cholesky" THEN SolveCholesky(A, b) ELSE SolveSvd(A, b)
  IN  [coef |-> <<RInt(0)>> \o w, solver |-> sv]

\* Ridge(alpha).fit(X, y) on exact data: <<intercept_, coef_[0], ...>> and
\* the solver that produced it.  The intercept is fitted on the means and
\* is not penalised.
RidgeExact(X, ys, alpha) ==
  LET m  == Len(X[1])
      Xc == CentreColumns(X)
      yc == Centre(ys)
      A  == NormalMatrix(Xc, m, alpha)
      b  == Tup([j \in 1..m |-> Dot(Column(Xc, j), yc)])
      sv == SolverUsed(A)
      w  == IF sv = "cholesky" THEN SolveCholesky(A, b) ELSE SolveSvd(A, b)
      b0 == RSub(Mean(ys), Dot(Tup([j \in 1..m |-> Mean(Column(X, j))]), w))
  IN  [coef |-> <<b0>> \o w, solver |-> sv]

\* the coefficients of a fit: exact on exact targets, otherwise the term
\* naming the ridge problem they solve (alpha > 0 there: never singular)
RidgeFit(degree, alpha, xs, ys) ==
  IF IsExact(ys) THEN RidgeExact(Expand(xs, degree), ys, alpha)
  ELSE [coef   |-> <<[degree |-> degree, alpha |-> alpha,
                      X |-> xs, y |-> ys]>>,
        solver |-> "cholesky"]

\* intercept_ + row . coef_ for one expanded query row
RidgeEval(coef, q, degree) ==
  IF Len(coef) = 1 THEN [coef |-> coef[1], at |-> q]
  ELSE RAdd(coef[1], Dot(Expand(<<q>>, degree)[1], Tail(coef)))

\* --------------------------------------------------------------- the model
\* make_pipeline(PolynomialFeatures(degree), Ridge(alpha)): an Unfit model
MakePipeline(degree, alpha) ==
  [degree |-> degree, alpha |-> alpha, fitted |-> FALSE, coef |-> <<>>]

\* PipelineFit that marks the model Fit before the ridge step validates
\* its input (mutation for C5)
FitStoresBeforeCheck(m, xs, ys) ==
  IF m.degree < 0 THEN
    [model |-> m, outcome |-> "InvalidParameter", solver |-> "none",
     xs |-> xs, ys |-> ys, attempts |-> 1]
  ELSE IF Len(xs) # Len(ys) THEN
    [model |-> [m EXCEPT !.fitted = TRUE, !.coef = <<RInt(0), RInt(0)>>],
     outcome |-> "DimensionMismatch", solver |-> "none",
     xs |-> xs, ys |-> ys, attempts |-> 1]
  ELSE
    LET r == RidgeFit(m.degree, m.alpha, xs, ys)
    IN  [model   |-> [m EXCEPT !.fitted = TRUE, !.coef = r.coef],
         outcome |-> "ok", solver |-> r.solver,
         xs |-> xs, ys |-> ys, attempts |-> 1]

\* PipelineFit without the fallback to the 'svd' solver: a singular normal
\* matrix raises (mutation for C8)
FitNoFallback(m, xs, ys) ==
  IF m.degree < 0 THEN
    [model |-> m, outcome |-> "InvalidParameter", solver |-> "none",
     xs |-> xs, ys |-> ys, attempts |-> 1]
  ELSE IF Len(xs) # Len(ys) THEN
    [model |-> m, outcome |-> "DimensionMismatch", solver |-> "none",
     xs |-> xs, ys |-> ys, attempts |-> 1]
  ELSE
    LET r == RidgeFit(m.degree, m.alpha, xs, ys)
    IN  IF r.solver = "svd" THEN
          [model |-> m, outcome |-> "SingularMatrix", solver |-> "cholesky",
           xs |-> xs, ys |-> ys, attempts |-> 1]
        ELSE
          [model   |-> [m EXCEPT !.fitted = TRUE, !.coef = r.coef],
           outcome |-> "ok", solver |-> r.solver,
           xs |-> xs, ys |-> ys, attempts |-> 1]

\* PipelineFit with copy_X=False: the caller's x comes back centred
\* (mutation for C9)
FitInPlace(m, xs, ys) ==
  IF m.degree < 0 THEN
    [model |-> m, outcome |-> "InvalidParameter", solver |-> "none",
     xs |-> xs, ys |-> ys, attempts |-> 1]
  ELSE IF Len(xs) # Len(ys) THEN
    [model |-> m, outcome |-> "DimensionMismatch", solver |-> "none",
     xs |-> xs, ys |-> ys, attempts |-> 1]
  ELSE
    LET r == RidgeFit(m.degree, m.alpha, xs, ys)
    IN  [model   |-> [m EXCEPT !.fitted = TRUE, !.coef = r.coef],
         outcome |-> "ok", solver |-> r.solver,
         xs |-> Centre(xs), ys |-> ys, attempts |-> 1]

\* model.fit(X, y).  The expander accepts any degree; the ridge step then
\* rejects a matrix without columns, and input sequences of unequal length.
\* Both are a ValueError in the library; the outcome names its cause:
\* "InvalidParameter" (degree < 0) and "DimensionMismatch".
\* A rejected fit raises before any coefficient is stored.  The steps work
\* on copies (copy_X=True): the caller's arrays xs, ys come back unchanged.
\* The call runs the steps once; nothing in it fits a second time.
PipelineFit(m, xs, ys) ==
  IF m.degree < 0 THEN
    [model |-> m, outcome |-> "InvalidParameter", solver |-> "none",
     xs |-> xs, ys |-> ys, attempts |-> 1]
  ELSE IF Len(xs) # Len(ys) THEN
    [model |-> m, outcome |-> "DimensionMismatch", solver |-> "none",
     xs |-> xs, ys |-> ys, attempts |-> 1]
  ELSE
    LET r == RidgeFit(m.degree, m.alpha, xs, ys)
    IN  [model   |-> [m EXCEPT !.fitted = TRUE, !.coef = r.coef],
         outcome |-> "ok", solver |-> r.solver,
         xs |-> xs, ys |-> ys, attempts |-> 1]

\* PipelinePredict without the fitted check: an Unfit model predicts 0
\* everywhere (mutation for C1)
PredictUnchecked(m, qs) ==
  [model   |-> m,
   outcome |-> "ok",
   values  |-> Tup([i \in 1..Len(qs) |->
                      IF m.fitted THEN RidgeEval(m.coef, qs[i], m.degree)
                      ELSE RInt(0)])]

\* PipelinePredict that shifts the stored intercept on every call
\* (mutation for C2)
PredictDrift(m, qs) ==
  IF ~m.fitted THEN
    [model |-> m, outcome |-> "NotFitted", values |-> <<>>]
  ELSE
    [model   |-> [m EXCEPT !.coef = <<RAdd(m.coef[1], RInt(1))>>
                                      \o Tail(m.coef)],
     outcome |-> "ok",
     values  |-> Tup([i \in 1..Len(qs) |->
                        RidgeEval(m.coef, qs[i], m.degree)])]

\* PipelinePredict that drops the last query point (mutation for C3)
PredictTruncated(m, qs) ==
  IF ~m.fitted THEN
    [model |-> m, outcome |-> "NotFitted", values |-> <<>>]
  ELSE
    [model   |-> m,
     outcome |-> "ok",
     values  |-> Tup([i \in 1..(Len(qs) - 1) |->
                        RidgeEval(m.coef, qs[i], m.degree)])]

\* model.predict(Q): one value per query point, in the order of Q; on a
\* pipeline that was never fitted the library raises NotFittedError
PipelinePredict(m, qs) ==
  IF ~m.fitted THEN
    [model |-> m, outcome |-> "NotFitted", values |-> <<>>]
  ELSE
    [model   |-> m,
     outcome |-> "ok",
     values  |-> Tup([i \in 1..Len(qs) |->
                        RidgeEval(m.coef, qs[i], m.degree)])]

\* ------------------------------------------------------------ the notebook
\* np.linspace(lo, hi, n): n evenly spaced points, both ends included
Linspace(lo, hi, n) ==
  Tup([i \in 1..n |-> Rat(lo * (n - 1) + (hi - lo) * (i - 1), n - 1)])

\* f(x) = x * np.sin(x), elementwise: the term f(x_i) for every x_i
F(v) == Tup([i \in 1..Len(v) |-> <<v[i][1], v[i][2], "f">>])

\* the arrays rng.shuffle(a) may leave in a: every reordering of a
Shuffles(a) ==
  {Tup([i \in 1..Len(a) |-> a[p[i]]]) : p \in Permutations(1..Len(a))}

\* np.sort(a[:k]): a new array, the first k elements in ascending order
SortedPrefix(a, k) ==
  SortSeq(SubSeq(a, 1, IF k < Len(a) THEN k ELSE Len(a)), RLess)

\* for count, degree in enumerate([3, 4, 5])
Degrees == <<3, 4, 5>>
Colors == <<"teal", "yellowgreen", "gold">>

\* "degree %d" % degree
DegreeName(degree) == "degree " \o ToString(degree)

\* go.Scatter(x=..., y=..., mode=..., name=...)
Scatter(xs, ys, mode, color, name) ==
  [x |-> xs, y |-> ys, mode |-> mode, color |-> color, name |-> name]

\* the record of one pipeline operation: its outcome, the solver a fit used,
\* how many times the pipeline ran its steps, the query of a predict and the
\* number of values the call returned
OpRecord(op, outcome, solver, attempts, arg, returned) ==
  [op |-> op, outcome |-> outcome, solver |-> solver, attempts |-> attempts,
   arg |-> arg, returned |-> returned]

NoOp == OpRecord("none", "ok", "none", 0, <<>>, 0)

VARIABLES
  pc,       \* position in the notebook's cells, or "api" / "par"
  x_plot,   \* evaluation grid (the caller's query sequence)
  x,        \* training x
  y,        \* training y
  data,     \* list of series built by the Plot Results cell
  fig,      \* series handed to go.Figure, <<>> before
  count,    \* loop counter of enumerate([3, 4, 5])
  models,   \* heap of pipeline objects
  model,    \* the name `model`: index into models, 0 when unbound
  y_plot,   \* the latest predictions
  design,   \* the latest expanded design matrix
  last,     \* the latest pipeline operation and its outcome
  seen,     \* predictions made since the model was last fitted
  wpc,      \* per-model position when the three models run interleaved
  wcurve    \* per-model predicted curve when run interleaved

vars == <<pc, x_plot, x, y, data, fig, count, models, model, y_plot,
          design, last, seen, wpc, wcurve>>

\* the notebook before the Calculations cell runs
Init ==
  /\ pc = "calc"
  /\ x_plot = <<>> /\ x = <<>> /\ y = <<>>
  /\ data = <<>> /\ fig = <<>> /\ count = 0
  /\ models = <<>> /\ model = 0
  /\ y_plot = <<>> /\ design = <<>>
  /\ last = NoOp /\ seen = {}
  /\ wpc = <<>> /\ wcurve = <<>>

\* x_plot = np.linspace(0, 10, 100); x = np.linspace(0, 10, 100)
MakeGrids ==
  /\ pc = "calc"
  /\ x_plot' = Linspace(0, 10, NGrid)
  /\ x' = Linspace(0, 10, NGrid)
  /\ pc' = "shuffle"
  /\ UNCHANGED <<y, data, fig, count, models, model, y_plot, design, last,
                 seen, wpc, wcurve>>

\* Shuffle when x is the same array as x_plot (x = x_plot instead of a
\* second np.linspace): the grid is reordered too (mutation for C10)
ShuffleAliased ==
  /\ pc = "shuffle"
  /\ x' \in Shuffles(x)
  /\ x_plot' = x'
  /\ pc' = "sort"
  /\ UNCHANGED <<y, data, fig, count, models, model, y_plot, design,
                 last, seen, wpc, wcurve>>

\* rng.shuffle(x): in place, on x only
Shuffle ==
  /\ pc = "shuffle"
  /\ x' \in Shuffles(x)
  /\ pc' = "sort"
  /\ UNCHANGED <<x_plot, y, data, fig, count, models, model, y_plot, design,
                 last, seen, wpc, wcurve>>

\* x = np.sort(x[:20])
SortSample ==
  /\ pc = "sort"
  /\ x' = SortedPrefix(x, NTrain)
  /\ pc' = "targets"
  /\ UNCHANGED <<x_plot, y, data, fig, count, models, model, y_plot, design,
                 last, seen, wpc, wcurve>>

\* y = f(x)
EvalTargets ==
  /\ pc = "targets"
  /\ y' = F(x)
  /\ pc' = "plot"
  /\ UNCHANGED <<x_plot, x, data, fig, count, models, model, y_plot, design,
                 last, seen, wpc, wcurve>>

\* data = []; data.append(p1); data.append(p2)
StartData ==
  /\ pc = "plot"
  /\ data' = <<Scatter(x_plot, F(x_plot), "lines", "cornflowerblue",
                       "ground truth"),
               Scatter(x, y, "markers", "navy", "training points")>>
  /\ pc' = "loop"
  /\ UNCHANGED <<x_plot, x, y, fig, count, models, model, y_plot, design,
                 last, seen, wpc, wcurve>>

\* model = make_pipeline(PolynomialFeatures(degree), Ridge())
LoopMake ==
  /\ pc = "loop"
  /\ count < Len(Degrees)
  /\ models' = Append(models, MakePipeline(Degrees[count + 1], RidgeAlpha))
  /\ model' = Len(models) + 1
  /\ seen' = {}
  /\ pc' = "fit"
  /\ UNCHANGED <<x_plot, x, y, data, fig, count, y_plot, design, last,
                 wpc, wcurve>>

\* model.fit(X, y); an exception ends the cell
LoopFit ==
  /\ pc = "fit"
  /\ LET r == PipelineFit(models[model], x, y)
     IN  /\ models' = [models EXCEPT ![model] = r.model]
         /\ x' = r.xs
         /\ y' = r.ys
         /\ last' = OpRecord("fit", r.outcome, r.solver, r.attempts, <<>>, 0)
         /\ seen' = IF r.outcome = "ok" THEN {} ELSE seen
         /\ pc' = IF r.outcome = "ok" THEN "predict" ELSE "raised"
  /\ UNCHANGED <<x_plot, data, fig, count, model, y_plot, design,
                 wpc, wcurve>>

\* y_plot = model.predict(X_plot); an exception ends the cell
LoopPredict ==
  /\ pc = "predict"
  /\ LET r == PipelinePredict(models[model], x_plot)
     IN  /\ models' = [models EXCEPT ![model] = r.model]
         /\ last' = OpRecord("predict", r.outcome, "none", 1, x_plot,
                              Len(r.values))
         /\ y_plot' = IF r.outcome = "ok" THEN r.values ELSE y_plot
         /\ seen' = IF r.outcome = "ok"
                    THEN seen \cup {[q |-> x_plot, values |-> r.values]}
                    ELSE seen
         /\ pc' = IF r.outcome = "ok" THEN "append" ELSE "raised"
  /\ UNCHANGED <<x_plot, x, y, data, fig, count, model, design,
                 wpc, wcurve>>

\* p3 = go.Scatter(x=x_plot, y=y_plot, ...); data.append(p3)
LoopAppend ==
  /\ pc = "append"
  /\ data' = Append(data, Scatter(x_plot, y_plot, "lines",
                                  Colors[count + 1],
                                  DegreeName(Degrees[count + 1])))
  /\ count' = count + 1
  /\ pc' = "loop"
  /\ UNCHANGED <<x_plot, x, y, fig, models, model, y_plot, design, last,
                 seen, wpc, wcurve>>

\* fig = go.Figure(data=data, layout=layout)
MakeFigure ==
  /\ pc = "loop"
  /\ count = Len(Degrees)
  /\ fig' = data
  /\ pc' = "done"
  /\ UNCHANGED <<x_plot, x, y, data, count, models, model, y_plot, design,
                 last, seen, wpc, wcurve>>

Next ==
  \/ MakeGrids
  \/ Shuffle
  \/ SortSample
  \/ EvalTargets
  \/ StartData
  \/ LoopMake
  \/ LoopFit
  \/ LoopPredict
  \/ LoopAppend
  \/ MakeFigure

Spec == Init /\ [][Next]_vars

\* ------------------------------------------- an arbitrary caller's inputs
\* the sequence of integers s as exact numbers
Q(s) == Tup([i \in 1..Len(s) |-> RInt(s[i])])

\* training x and y sequences, drawn independently (lengths may differ):
\* one sample, a repeated x, two and three distinct x with and without 0,
\* three x of which two are equal, and the sample x = [1, 2, 3],
\* y = [1, 4, 9] of y = x ** 2
TrainXs == {Q(<<2>>), Q(<<1, 1>>), Q(<<0, 2>>), Q(<<0, 1, 1>>),
            Q(<<1, 2, 3>>)}
TrainYs == {Q(<<1>>), Q(<<1, 4>>), Q(<<4, 1>>), Q(<<1, 4, 9>>)}
Queries == {Q(<<4>>)}

\* one Unfit pipeline of any configuration and the caller's three arrays
InitApi ==
  /\ pc = "api"
  /\ x \in TrainXs
  /\ y \in TrainYs
  /\ x_plot \in Queries
  /\ \E degree \in -1..MaxDegree, alpha \in 0..MaxAlpha :
        models = <<MakePipeline(degree, alpha)>>
  /\ model = 1
  /\ data = <<>> /\ fig = <<>> /\ count = 0
  /\ y_plot = <<>> /\ design = <<>>
  /\ last = NoOp /\ seen = {}
  /\ wpc = <<>> /\ wcurve = <<>>

\* PolynomialFeatures(degree).fit_transform(X) on the training x
ApiExpand ==
  /\ pc = "api"
  /\ design' = Expand(x, models[model].degree)
  /\ last' = OpRecord("expand", "ok", "none", 1, <<>>, 0)
  /\ UNCHANGED <<pc, x_plot, x, y, data, fig, count, models, model, y_plot,
                 seen, wpc, wcurve>>

\* model.fit(X, y); the caller goes on after an exception
ApiFit ==
  /\ pc = "api"
  /\ LET r == PipelineFit(models[model], x, y)
     IN  /\ models' = [models EXCEPT ![model] = r.model]
         /\ x' = r.xs
         /\ y' = r.ys
         /\ last' = OpRecord("fit", r.outcome, r.solver, r.attempts, <<>>, 0)
         /\ seen' = IF r.outcome = "ok" THEN {} ELSE seen
  /\ UNCHANGED <<pc, x_plot, data, fig, count, model, y_plot, design,
                 wpc, wcurve>>

\* model.predict(Q) for Q the query sequence or the training x
ApiPredict ==
  /\ pc = "api"
  /\ \E q \in {x_plot, x} :
       LET r == PipelinePredict(models[model], q)
       IN  /\ models' = [models EXCEPT ![model] = r.model]
           /\ last' = OpRecord("predict", r.outcome, "none", 1, q,
                                Len(r.values))
           /\ y_plot' = IF r.outcome = "ok" THEN r.values ELSE y_plot
           /\ seen' = IF r.outcome = "ok"
                      THEN seen \cup {[q |-> q, values |-> r.values]}
                      ELSE seen
  /\ UNCHANGED <<pc, x_plot, x, y, data, fig, count, model, design,
                 wpc, wcurve>>

NextApi ==
  \/ ApiExpand
  \/ ApiFit
  \/ ApiPredict

SpecApi == InitApi /\ [][NextApi]_vars

\* ------------------------------------- the three models run interleaved
\* the result of the notebook's loop run in its own order from iteration k:
\* per degree the fitted coefficients and the predicted curve
RECURSIVE SeqRun(_, _, _, _)
SeqRun(k, xs, ys, grid) ==
  IF k > Len(Degrees) THEN <<>>
  ELSE LET f == PipelineFit(MakePipeline(Degrees[k], RidgeAlpha), xs, ys)
           p == PipelinePredict(f.model, grid)
       IN  <<[coef |-> p.model.coef, curve |-> p.values]>>
             \o SeqRun(k + 1, f.xs, f.ys, grid)

\* the state the loop starts in, for every outcome of the shuffle, with the
\* three pipelines already constructed and each about to be fitted
InitPar ==
  /\ pc = "par"
  /\ x_plot = Linspace(0, 10, NGrid)
  /\ x \in {SortedPrefix(s, NTrain) : s \in Shuffles(Linspace(0, 10, NGrid))}
  /\ y = F(x)
  /\ data = <<Scatter(x_plot, F(x_plot), "lines", "cornflowerblue",
                      "ground truth"),
              Scatter(x, y, "markers", "navy", "training points")>>
  /\ models = Tup([k \in 1..Len(Degrees) |->
                     MakePipeline(Degrees[k], RidgeAlpha)])
  /\ wpc = Tup([k \in 1..Len(Degrees) |-> "fit"])
  /\ wcurve = Tup([k \in 1..Len(Degrees) |-> <<>>])
  /\ fig = <<>> /\ count = 0 /\ model = 0
  /\ y_plot = <<>> /\ design = <<>>
  /\ last = NoOp /\ seen = {}

\* model k: model.fit(X, y)
ParFit(k) ==
  /\ pc = "par"
  /\ wpc[k] = "fit"
  /\ LET r == PipelineFit(models[k], x, y)
     IN  /\ models' = [models EXCEPT ![k] = r.model]
         /\ x' = r.xs
         /\ y' = r.ys
         /\ wpc' = [wpc EXCEPT ![k] = IF r.outcome = "ok" THEN "predict"
                                      ELSE "raised"]
  /\ UNCHANGED <<pc, x_plot, data, fig, count, model, y_plot, design, last,
                 seen, wcurve>>

\* model k: y_plot = model.predict(X_plot)
ParPredict(k) ==
  /\ pc = "par"
  /\ wpc[k] = "predict"
  /\ LET r == PipelinePredict(models[k], x_plot)
     IN  /\ models' = [models EXCEPT ![k] = r.model]
         /\ wcurve' = [wcurve EXCEPT ![k] = r.values]
         /\ wpc' = [wpc EXCEPT ![k] = IF r.outcome = "ok" THEN "append"
                                      ELSE "raised"]
  /\ UNCHANGED <<pc, x_plot, x, y, data, fig, count, model, y_plot, design,
                 last, seen>>

\* model k: data.append(p3)
ParAppend(k) ==
  /\ pc = "par"
  /\ wpc[k] = "append"
  /\ data' = Append(data, Scatter(x_plot, wcurve[k], "lines", Colors[k],
                                  DegreeName(Degrees[k])))
  /\ wpc' = [wpc EXCEPT ![k] = "done"]
  /\ UNCHANGED <<pc, x_plot, x, y, fig, count, models, model, y_plot, design,
                 last, seen, wcurve>>

NextPar ==
  \/ \E k \in 1..Len(Degrees) : ParFit(k)
  \/ \E k \in 1..Len(Degrees) : ParPredict(k)
  \/ \E k \in 1..Len(Degrees) : ParAppend(k)

SpecPar == InitPar /\ [][NextPar]_vars

\* ------------------------- the notebook or an arbitrary caller, whichever
InitAll == Init \/ InitApi

NextAll ==
  \/ Next
  \/ NextApi

SpecAll == InitAll /\ [][NextAll]_vars

\* ======================================================== the properties
NotebookPcs == {"calc", "shuffle", "sort", "targets", "plot", "loop", "fit",
                "predict", "append", "done", "raised"}
AfterCalculations == {"plot", "loop", "fit", "predict", "append", "done",
                      "raised"}

\* the error kinds the specification names
Errors == {"InvalidParameter", "SingularMatrix", "NotFitted",
           "DimensionMismatch"}

\* the step taken is a fit, resp. a predict (every caller step sets last)
FitStep == pc = "fit" \/ (pc = "api" /\ last'.op = "fit")
PredictStep == pc = "predict" \/ (pc = "api" /\ last'.op = "predict")

\* ---------------------------------------------------------------------- C1
C1_State ==
  /\ \A k \in 1..Len(models) :
       /\ models[k].fitted \in BOOLEAN
       /\ models[k].fitted <=> Len(models[k].coef) > 0
  /\ pc = "predict" => models[model].fitted
  /\ pc # "raised"
  /\ (pc \in NotebookPcs /\ last.op = "predict") => last.outcome = "ok"
  /\ pc \in NotebookPcs => Cardinality(seen) <= 1

C1_Step ==
  /\ \A k \in 1..Len(models) :
       /\ models[k].fitted => models'[k].fitted
       /\ (~models[k].fitted /\ models'[k].fitted) =>
            (FitStep /\ last'.outcome = "ok")
  /\ (PredictStep /\ ~models[model].fitted) =>
       /\ last'.outcome = "NotFitted"
       /\ last'.returned = 0
       /\ y_plot' = y_plot

\* C1: a model is Unfit (no coefficients) or Fit (coefficients present); it
\* becomes Fit only by a successful fit and never returns to Unfit; a
\* predict on an Unfit model ends NotFitted and returns no predictions; in
\* the notebook every model is fitted before its single predict, so no
\* predict meets an Unfit model and the cell never raises.
C1_Lifecycle == [](C1_State) /\ [][C1_Step]_vars

\* a caller's predict on an Unfit model has just raised NotFitted
C1_Witness ==
  /\ pc = "api"
  /\ last.op = "predict"
  /\ last.outcome = "NotFitted"
  /\ ~models[model].fitted

\* ---------------------------------------------------------------------- C2
C2_State ==
  \A e1 \in seen : \A e2 \in seen : e1.q = e2.q => e1.values = e2.values

C2_Step == PredictStep => models' = models

C3_Series ==
  pc = "done" =>
    /\ Len(fig) = 5
    /\ Tup([i \in 1..5 |-> fig[i].name]) =
         <<"ground truth", "training points", "degree 3", "degree 4",
           "degree 5">>
    /\ \A d \in {3, 4, 5} :
         Cardinality({i \in 1..Len(fig) : fig[i].name = DegreeName(d)}) = 1
    /\ \A k \in 1..3 :
         /\ models[k].degree = k + 2
         /\ Len(fig[k + 2].y) = NGrid
         /\ Len(fig[k + 2].x) = NGrid
         /\ fig[k + 2].x = x_plot
         /\ \A i \in 1..NGrid :
              fig[k + 2].y[i] = [coef |-> models[k].coef[1],
                                 at   |-> x_plot[i]]

\* the run is complete and the figure has been built
C3_Witness == pc = "done" /\ Len(fig) = 5 /\ Len(fig[5].y) = NGrid

\* ---------------------------------------------------------------------- C4
\* C4: for a degree d >= 0 the expanded matrix has one row per input scalar,
\* in input order, and d + 1 columns; column 0 is 1 in every row, also for
\* x_i = 0, and every further column is the one before it times x_i.
C4_Vandermonde ==
  (pc = "api" /\ design # <<>> /\ models[model].degree >= 0) =>
    /\ Len(design) = Len(x)
    /\ \A i \in 1..Len(x) :
         /\ Len(design[i]) = models[model].degree + 1
         /\ design[i][1] = RInt(1)
         /\ \A k \in 1..models[model].degree :
              design[i][k + 1] = RMul(design[i][k], x[i])

\* a degree-2 expansion of a sequence that contains 0
C4_Witness ==
  /\ pc = "api"
  /\ last.op = "expand"
  /\ models[model].degree = 2
  /\ \E i \in 1..Len(x) : x[i] = RInt(0) /\ design[i] = Q(<<1, 0, 0>>)

\* ---------------------------------------------------------------------- C5
C5_Step ==
  /\ (FitStep /\ models[model].degree < 0) =>
       last'.outcome = "InvalidParameter"
  /\ (FitStep /\ models[model].degree >= 0 /\ Len(x) # Len(y)) =>
       last'.outcome = "DimensionMismatch"
  /\ (PredictStep /\ ~models[model].fitted) => last'.outcome = "NotFitted"
  /\ (pc = "api" /\ last'.outcome \in Errors) =>
       /\ models' = models
       /\ last'.attempts = 1
       /\ last'.returned = 0
       /\ x' = x /\ y' = y /\ x_plot' = x_plot
       /\ y_plot' = y_plot /\ design' = design /\ seen' = seen

Gram(X) == NormalMatrix(X, Len(X[1]), 0)

\* C6: degree 2, strength 0 on x = [1, 2, 3], y = [1, 4, 9] gives the
\* coefficients [0, 0, 1] with intercept 0, the unique solution of
\* (X^T X) b = X^T y for the 3x3 design matrix, and predict([4]) = [16].
C6_Quadratic ==
  (/\ pc = "api"
   /\ x = Q(<<1, 2, 3>>) /\ y = Q(<<1, 4, 9>>)
   /\ models[model].degree = 2 /\ models[model].alpha = 0
   /\ models[model].fitted) =>
    LET X    == Expand(x, 2)
        beta == Tail(models[model].coef)
        Xb   == Tup([i \in 1..3 |-> Dot(X[i], beta)])
    IN  /\ beta = Q(<<0, 0, 1>>)
        /\ models[model].coef[1] = RInt(0)
        /\ Len(X) = 3 /\ Len(X[1]) = 3
        /\ RDet(Gram(X)) # RInt(0)
        /\ \A j \in 1..3 : Dot(Column(X, j), Xb) = Dot(Column(X, j), y)
        /\ (last.op = "predict" /\ last.outcome = "ok"
              /\ last.arg = Q(<<4>>)) => y_plot = Q(<<16>>)

\* the quadratic sample has been fitted and predicted at [4]
C6_Witness ==
  /\ pc = "api"
  /\ x = Q(<<1, 2, 3>>) /\ y = Q(<<1, 4, 9>>)
  /\ models[model].degree = 2 /\ models[model].alpha = 0
  /\ models[model].fitted
  /\ last.op = "predict" /\ last.arg = Q(<<4>>)
  /\ y_plot = Q(<<16>>)

\* ---------------------------------------------------------------------- C7
\* C7 as stated: a degree-0 fit on n samples with strength l predicts, at
\* every query point, a value b0 with (n + l) * b0 = sum of y.
C7_PenalisedMean ==
  (/\ pc = "api"
   /\ models[model].degree = 0 /\ models[model].fitted
   /\ last.op = "predict" /\ last.outcome = "ok") =>
    \A i \in 1..Len(y_plot) :
      RMul(RInt(Len(y) + models[model].alpha), y_plot[i]) = RSum(y)

\* C7 amended: a degree-0 fit on n samples gives, for every strength
\* l >= 0, intercept b0 with n * b0 = sum of y (the plain mean: the
\* intercept is not penalised) and coefficient 0 for the constant column;
\* predict returns b0 at every query point whatever its value.
C7_PlainMean ==
  (/\ pc = "api"
   /\ models[model].degree = 0 /\ models[model].fitted) =>
    /\ Len(models[model].coef) = 2
    /\ RMul(RInt(Len(y)), models[model].coef[1]) = RSum(y)
    /\ models[model].coef[2] = RInt(0)
    /\ (last.op = "predict" /\ last.outcome = "ok") =>
         /\ Len(y_plot) = Len(last.arg)
         /\ \A i \in 1..Len(y_plot) : y_plot[i] = models[model].coef[1]

\* a degree-0 model with strength 1 has predicted at two different points
C7_Witness ==
  /\ pc = "api"
  /\ models[model].degree = 0 /\ models[model].alpha = 1
  /\ models[model].fitted
  /\ last.op = "predict" /\ last.outcome = "ok"
  /\ Len(last.arg) >= 2
  /\ last.arg[1] # last.arg[2]

\* ---------------------------------------------------------------------- C8
\* the fit's inputs pass validation
ValidFit == models[model].degree >= 0 /\ Len(x) = Len(y)

\* the design matrix of the training x is rank-deficient
RankDeficient == RDet(Gram(Expand(x, models[model].degree))) = RInt(0)

\* the stored coefficients minimise ||y - b0 - X w||^2 + alpha ||w||^2:
\* the residuals sum to 0 and X^T r = alpha * w
Optimal ==
  LET m == models[model]
      X == Expand(x, m.degree)
      r == Tup([i \in 1..Len(x) |->
                  RSub(y[i], RAdd(m.coef[1], Dot(X[i], Tail(m.coef))))])
  IN  /\ RSum(r) = RInt(0)
      /\ \A j \in 1..(m.degree + 1) :
           Dot(Column(X, j), r) = RMul(RInt(m.alpha), m.coef[j + 1])

Sequential == SeqRun(1, data[2].x, data[2].y, data[1].x)

C9_State ==
  \A k \in 1..Len(Degrees) :
    /\ wpc[k] # "raised"
    /\ wpc[k] \in {"predict", "append", "done"} =>
         models[k].coef = Sequential[k].coef
    /\ wpc[k] \in {"append", "done"} => wcurve[k] = Sequential[k].curve

C9_Step ==
  /\ x' = x /\ y' = y /\ x_plot' = x_plot
  /\ \A k \in 1..Len(Degrees) :
       wpc'[k] = wpc[k] => (models'[k] = models[k] /\ wcurve'[k] = wcurve[k])

Ascending(v) == \A i \in 1..(Len(v) - 1) : RLess(v[i], v[i + 1])

\* v is one of the NGrid evenly spaced points of [0, 10]
IsGridPoint(v) ==
  \E i \in 0..(NGrid - 1) : RMul(v, RInt(NGrid - 1)) = RInt(10 * i)

\* C10: after the Calculations cell, for every outcome of the shuffle, the
\* training x has exactly NTrain elements (20 in the notebook), ascending
\* without repeats, each a grid point; y has the same length with
\* y_i = f(x_i); and x_plot still holds all NGrid grid points (100 in the
\* notebook) in ascending order.
C10_Sampling ==
  pc \in AfterCalculations =>
    /\ Len(x) = NTrain
    /\ Ascending(x)
    /\ \A i \in 1..Len(x) : IsGridPoint(x[i])
    /\ Len(y) = Len(x)
    /\ \A i \in 1..Len(x) : y[i] = <<x[i][1], x[i][2], "f">>
    /\ Len(x_plot) = NGrid
    /\ Ascending(x_plot)
    /\ \A i \in 1..NGrid : RMul(x_plot[i], RInt(NGrid - 1)) = RInt(10 * (i - 1))

\* the cell has run and the sample is not the first NTrain grid points
C10_Witness ==
  /\ pc = "plot"
  /\ Len(x) = NTrain
  /\ x[1] # x_plot[1]
  /\ y = F(x)

====
